---- MODULE Spec2Model ----
(***************************************************************************)
(* Model of the aggregation layer of the Pixel forward-secure signature    *)
(* scheme (src/src/aggregate_signature.rs) together with the parts of the  *)
(* key hierarchy and of sign / verify that the aggregation layer calls.    *)
(*                                                                         *)
(* Group elements are modelled in the exponent.  A point of G1 or G2 is a  *)
(* pair <<s, c>>: s in 0..GroupOrder-1 is its component in the prime-order *)
(* subgroup (the discrete log to the group's generator) and c in           *)
(* 0..Cofactor-1 its component outside that subgroup.  <<0, 0>> is the     *)
(* identity, a point has the correct order iff c = 0, and the pairing of   *)
(* two points is the product of their s components modulo GroupOrder.      *)
(***************************************************************************)
EXTENDS Integers, Sequences, FiniteSets, TLC

VARIABLES
    ver_keys,   \* the Verkeys handed to the aggregation layer, in order
    sigs,       \* the Signatures handed to the aggregation layer, in order (None: not made yet)
    signed,     \* per signer: the (msg, t) its signature was made for, or None
    sks,        \* each signer's SigkeySet
    avk,        \* the AggregatedVerkey built by AggregatedVerkey::new, or None
    asig,       \* the AggregatedSignature built by AggregatedSignature::new, or None
    out         \* the last call's arguments and what it returned

vars == <<ver_keys, sigs, signed, sks, avk, asig, out>>

-----------------------------------------------------------------------------
(* Bounds of the model and constants of the program *)

\* order of the prime-order subgroups of G1 and G2 (a small prime)
GroupOrder == 17

\* index of the prime-order subgroup in the whole curve group
Cofactor == 2

\* let T = 7 in tests::test_aggr_sig_verify
MaxPeriod == 7

\* number of independent signers
NSigners == 2

\* longest list of Verkeys / Signatures handed to the aggregation layer
MaxLen == 2

\* the largest depth a u8 holds
MaxDepth == 255

None == [none |-> TRUE]

-----------------------------------------------------------------------------
(* Algebra layer: G1, G2 and the pairing *)

identity == <<0, 0>>

is_identity(P) == P = identity

has_correct_order(P) == P[2] = 0

\* P + R
Add(P, R) == <<(P[1] + R[1]) % GroupOrder, (P[2] + R[2]) % Cofactor>>

\* P * k, k a field element
ScalarMul(P, k) == <<(P[1] * k) % GroupOrder, (P[2] * k) % Cofactor>>

\* the pairing e(P, R), as an exponent of the generator of GT
ate_pairing(P, R) == (P[1] * R[1]) % GroupOrder

-----------------------------------------------------------------------------
(* Results *)

Ok(b) == [tag |-> "Ok", val |-> b, n |-> 0]

NotEnoughGenerators(k) == [tag |-> "NotEnoughGenerators", val |-> FALSE, n |-> k]

\* an out-of-bounds index into the generator vector
Panic == [tag |-> "Panic", val |-> FALSE, n |-> 0]

-----------------------------------------------------------------------------
(* Messages, tree depth, generators *)

\* "Hello" and a second message, as bytes
Hello == <<72, 101, 108, 108, 111>>

Other == <<72, 101, 108, 108, 112>>

Msgs == {Hello, Other}

RECURSIVE SumBytes(_)
SumBytes(bytes) ==
    IF bytes = <<>> THEN 0 ELSE Head(bytes) + SumBytes(Tail(bytes))

\* the message as a field element
hash_message(msg) == SumBytes(msg) % GroupOrder

RECURSIVE Pow2(_)
Pow2(k) == IF k = 0 THEN 1 ELSE 2 * Pow2(k - 1)

\* the minimal depth of a binary tree with T leaves
calculate_l(T) == CHOOSE l \in 0..T : Pow2(l) >= T /\ \A k \in 0..(l - 1) : Pow2(k) < T

Depth == calculate_l(MaxPeriod)

g2 == <<1, 0>>

\* GeneratorSet(g2, [h, h_1 .. h_l, h_msg]): depth + 2 elements of G1
Gens == <<g2, <<<<3, 0>>, <<1, 0>>, <<2, 0>>, <<4, 0>>, <<8, 0>>>>>>

\* the same set with its last generator missing
ShortGens == <<g2, SubSeq(Gens[2], 1, Len(Gens[2]) - 1)>>

\* bit j (1 = most significant) of the leaf index of period t in a tree of depth l
PathBit(t, l, j) == ((t - 1) \div Pow2(l - j)) % 2

RECURSIVE PathPoint(_, _, _, _)
PathPoint(t, l, gens, j) ==
    IF j = 0 THEN identity
    ELSE Add(PathPoint(t, l, gens, j - 1),
             ScalarMul(gens[2][1 + j], PathBit(t, l, j) + 1))

\* the element of G1 that binds the period's path and the message
BindPoint(msg, t, l, gens) ==
    Add(PathPoint(t, l, gens, l), ScalarMul(gens[2][l + 2], hash_message(msg)))

-----------------------------------------------------------------------------
(* Keys and signatures *)

Verkey(x) == [value |-> ScalarMul(g2, x)]

SigkeySet(t, x) == [t |-> t, x |-> x]

Signature(s1, s2) == [sigma_1 |-> s1, sigma_2 |-> s2]

SigkeySet_get_key(set, t) ==
    IF t = set.t THEN [ok |-> TRUE, key |-> [t |-> t, x |-> set.x]]
    ELSE [ok |-> FALSE, key |-> None]

\* the update with the guard t_new < t in place of t_new <= t
Mut_fast_forward_update_SamePeriod(set, t_new) ==
    IF t_new < set.t THEN [ok |-> FALSE, set |-> set]
    ELSE [ok |-> TRUE, set |-> [t |-> t_new, x |-> set.x]]

SigkeySet_fast_forward_update(set, t_new) ==
    IF t_new <= set.t THEN [ok |-> FALSE, set |-> set]
    ELSE [ok |-> TRUE, set |-> SigkeySet(t_new, set.x)]

\* sigma_1 = h^x * F(t, msg)^r, sigma_2 = g2^r
Signature_new(msg, t, l, gens, sk, r) ==
    Signature(Add(ScalarMul(gens[2][1], sk.x), ScalarMul(BindPoint(msg, t, l, gens), r)),
              ScalarMul(gens[1], r))

\* e(sigma_1, g2) = e(h, vk) * e(F(t, msg), sigma_2)
Signature_verify_naked(sigma_1, sigma_2, vk, msg, t, l, gens) ==
    IF Len(gens[2]) < l + 2 THEN Panic
    ELSE Ok(ate_pairing(sigma_1, gens[1])
              = (ate_pairing(gens[2][1], vk)
                   + ate_pairing(BindPoint(msg, t, l, gens), sigma_2)) % GroupOrder)

-----------------------------------------------------------------------------
(* The aggregation layer *)

RECURSIVE SumValues(_)
SumValues(keys) ==
    IF keys = <<>> THEN identity
    ELSE Add(SumValues(SubSeq(keys, 1, Len(keys) - 1)), keys[Len(keys)].value)

\* avk = vk.value in place of avk += vk.value
Mut_AggregatedVerkey_new_Assign(keys) ==
    [value |-> IF keys = <<>> THEN identity ELSE keys[Len(keys)].value]

AggregatedVerkey_new(keys) == [value |-> SumValues(keys)]

\* the identity test of the aggregated verkey left out
Mut_AggregatedVerkey_is_identity_Never(self) == [ret |-> FALSE, log |-> <<>>]

AggregatedVerkey_is_identity(self) ==
    IF is_identity(self.value)
    THEN [ret |-> TRUE, log |-> <<"AggregatedVerkey point at infinity">>]
    ELSE [ret |-> FALSE, log |-> <<>>]

RECURSIVE SumSigma1(_)
SumSigma1(ss) ==
    IF ss = <<>> THEN identity
    ELSE Add(SumSigma1(SubSeq(ss, 1, Len(ss) - 1)), ss[Len(ss)].sigma_1)

RECURSIVE SumSigma2(_)
SumSigma2(ss) ==
    IF ss = <<>> THEN identity
    ELSE Add(SumSigma2(SubSeq(ss, 1, Len(ss) - 1)), ss[Len(ss)].sigma_2)

\* the sums started from the groups' generators in place of their identities
Mut_AggregatedSignature_new_FromGenerator(ss) ==
    [sigma_1 |-> Add(<<1, 0>>, SumSigma1(ss)), sigma_2 |-> Add(<<1, 0>>, SumSigma2(ss))]

\* asig_2 = s.sigma_2 in place of asig_2 += s.sigma_2
Mut_AggregatedSignature_new_AssignSigma2(ss) ==
    [sigma_1 |-> SumSigma1(ss),
     sigma_2 |-> IF ss = <<>> THEN identity ELSE ss[Len(ss)].sigma_2]

AggregatedSignature_new(ss) == [sigma_1 |-> SumSigma1(ss), sigma_2 |-> SumSigma2(ss)]

\* only sigma_1 tested
Mut_AggregatedSignature_is_identity_OnlySigma1(self) ==
    IF is_identity(self.sigma_1)
    THEN [ret |-> TRUE, log |-> <<"Signature point in G1 at infinity">>]
    ELSE [ret |-> FALSE, log |-> <<>>]

AggregatedSignature_is_identity(self) ==
    IF is_identity(self.sigma_1)
    THEN [ret |-> TRUE, log |-> <<"Signature point in G1 at infinity">>]
    ELSE IF is_identity(self.sigma_2)
    THEN [ret |-> TRUE, log |-> <<"Signature point in G2 at infinity">>]
    ELSE [ret |-> FALSE, log |-> <<>>]

AggregatedSignature_has_correct_oder(self) ==
    IF ~has_correct_order(self.sigma_1)
    THEN [ret |-> FALSE, log |-> <<"Signature point in G1 has incorrect order">>]
    ELSE IF ~has_correct_order(self.sigma_2)
    THEN [ret |-> FALSE, log |-> <<"Signature point in G2 has incorrect order">>]
    ELSE [ret |-> TRUE, log |-> <<>>]

\* l + 2 computed in u8
Mut_RequiredGens_u8(l) == (l + 2) % (MaxDepth + 1)

\* l as usize + 2
RequiredGens(l) == l + 2

\* the generator-count check made before the degenerate-input checks
Mut_verify_using_aggr_vk_GensFirst(self, msg, t, l, a, gens) ==
    LET si == AggregatedSignature_is_identity(self)
        ki == AggregatedVerkey_is_identity(a)
        co == AggregatedSignature_has_correct_oder(self)
    IN  IF Len(gens[2]) < l + 2
        THEN [res |-> NotEnoughGenerators(l + 2), log |-> <<>>, naked |-> FALSE]
        ELSE IF si.ret
        THEN [res |-> Ok(FALSE), log |-> si.log, naked |-> FALSE]
        ELSE IF ki.ret
        THEN [res |-> Ok(FALSE), log |-> ki.log, naked |-> FALSE]
        ELSE IF ~co.ret
        THEN [res |-> Ok(FALSE), log |-> co.log, naked |-> FALSE]
        ELSE [res |-> Signature_verify_naked(self.sigma_1, self.sigma_2, a.value,
                                             msg, t, l, gens),
              log |-> <<>>, naked |-> TRUE]

\* the generator-count check with <= in place of <
Mut_verify_using_aggr_vk_GensOffByOne(self, msg, t, l, a, gens) ==
    LET si == AggregatedSignature_is_identity(self)
        ki == AggregatedVerkey_is_identity(a)
        co == AggregatedSignature_has_correct_oder(self)
    IN  IF si.ret
        THEN [res |-> Ok(FALSE), log |-> si.log, naked |-> FALSE]
        ELSE IF ki.ret
        THEN [res |-> Ok(FALSE), log |-> ki.log, naked |-> FALSE]
        ELSE IF ~co.ret
        THEN [res |-> Ok(FALSE), log |-> co.log, naked |-> FALSE]
        ELSE IF Len(gens[2]) <= l + 2
        THEN [res |-> NotEnoughGenerators(l + 2), log |-> <<>>, naked |-> FALSE]
        ELSE [res |-> Signature_verify_naked(self.sigma_1, self.sigma_2, a.value,
                                             msg, t, l, gens),
              log |-> <<>>, naked |-> TRUE]

\* res: the Result returned; log: the lines printed; naked: whether
\* Signature::verify_naked was called
AggregatedSignature_verify_using_aggr_vk(self, msg, t, l, a, gens) ==
    LET si == AggregatedSignature_is_identity(self)
        ki == AggregatedVerkey_is_identity(a)
        co == AggregatedSignature_has_correct_oder(self)
    IN  IF si.ret
        THEN [res |-> Ok(FALSE), log |-> si.log, naked |-> FALSE]
        ELSE IF ki.ret
        THEN [res |-> Ok(FALSE), log |-> ki.log, naked |-> FALSE]
        ELSE IF ~co.ret
        THEN [res |-> Ok(FALSE), log |-> co.log, naked |-> FALSE]
        ELSE IF Len(gens[2]) < RequiredGens(l)
        THEN [res |-> NotEnoughGenerators(RequiredGens(l)), log |-> <<>>, naked |-> FALSE]
        ELSE [res |-> Signature_verify_naked(self.sigma_1, self.sigma_2, a.value,
                                             msg, t, l, gens),
              log |-> <<>>, naked |-> TRUE]

\* the aggregated verkey built from all the verkeys but the last
Mut_verify_DropsLastKey(self, msg, t, l, keys, gens) ==
    AggregatedSignature_verify_using_aggr_vk(
        self, msg, t, l,
        AggregatedVerkey_new(SubSeq(keys, 1, IF keys = <<>> THEN 0 ELSE Len(keys) - 1)),
        gens)

AggregatedSignature_verify(self, msg, t, l, keys, gens) ==
    AggregatedSignature_verify_using_aggr_vk(self, msg, t, l,
                                             AggregatedVerkey_new(keys), gens)

-----------------------------------------------------------------------------
(* Specification Spec: the aggregation layer applied to lists of Verkeys   *)
(* and Signatures, well formed or not.                                     *)

\* the first period a SigkeySet holds
FirstPeriod == 1

SeqsUpTo(S, k) == UNION {[1..j -> S] : j \in 0..k}

\* a signer's Verkey and the Verkey of its negated secret
VerkeySamples == {Verkey(2), Verkey(GroupOrder - 2)}

\* an honest signature of Hello at the first period under secret 2, and
\* malformed ones: one identity component, one component of the wrong order
SignatureSamples ==
    {Signature_new(Hello, FirstPeriod, Depth, Gens, [t |-> FirstPeriod, x |-> 2], 1),
     Signature(identity, <<1, 0>>),
     Signature(<<1, 0>>, identity),
     Signature(<<1, 1>>, <<1, 0>>),
     Signature(<<1, 0>>, <<1, 1>>)}

\* the period signed at and a later one
PeriodSamples == {FirstPeriod, FirstPeriod + 2}

DepthSamples == {Depth, MaxDepth}

GensSamples == {Gens, ShortGens}

NoCall == [op |-> "none"]

Init ==
    /\ ver_keys \in SeqsUpTo(VerkeySamples, MaxLen)
    /\ sigs \in SeqsUpTo(SignatureSamples, MaxLen)
    /\ signed = <<>>
    /\ sks = <<>>
    /\ avk = None
    /\ asig = None
    /\ out = NoCall

NewAggregatedVerkey ==
    /\ avk' = AggregatedVerkey_new(ver_keys)
    /\ UNCHANGED <<ver_keys, sigs, signed, sks, asig, out>>

NewAggregatedSignature ==
    /\ asig' = AggregatedSignature_new(sigs)
    /\ UNCHANGED <<ver_keys, sigs, signed, sks, avk, out>>

Verify ==
    /\ asig # None
    /\ \E msg \in Msgs, t \in PeriodSamples, l \in DepthSamples, gens \in GensSamples :
         out' = [op |-> "verify", msg |-> msg, t |-> t, l |-> l, gens |-> gens,
                 r |-> AggregatedSignature_verify(asig, msg, t, l, ver_keys, gens)]
    /\ UNCHANGED <<ver_keys, sigs, signed, sks, avk, asig>>

VerifyUsingAggrVk ==
    /\ asig # None
    /\ avk # None
    /\ \E msg \in Msgs, t \in PeriodSamples, l \in DepthSamples, gens \in GensSamples :
         out' = [op |-> "verify_using_aggr_vk", msg |-> msg, t |-> t, l |-> l,
                 gens |-> gens,
                 r |-> AggregatedSignature_verify_using_aggr_vk(asig, msg, t, l, avk, gens)]
    /\ UNCHANGED <<ver_keys, sigs, signed, sks, avk, asig>>

Next ==
    \/ NewAggregatedVerkey
    \/ NewAggregatedSignature
    \/ Verify
    \/ VerifyUsingAggrVk

Spec == Init /\ [][Next]_vars

-----------------------------------------------------------------------------
(* Properties of the aggregation layer, checked under Spec *)

VerifyCall == out.op \in {"verify", "verify_using_aggr_vk"}

\* the aggregated verkey the last verification call checked against
UsedAvk == IF out.op = "verify" THEN AggregatedVerkey_new(ver_keys) ELSE avk

SigIdentity == is_identity(asig.sigma_1) \/ is_identity(asig.sigma_2)

KeyIdentity == is_identity(UsedAvk.value)

SigWrongOrder == ~has_correct_order(asig.sigma_1) \/ ~has_correct_order(asig.sigma_2)

Degenerate == SigIdentity \/ KeyIdentity \/ SigWrongOrder

TooFewGens == Len(out.gens[2]) < out.l + 2

\* the line the first failing degenerate-input check prints, the checks taken in
\* the order (a) signature identity, (b) key identity, (c) signature order
FirstFailingCheck ==
    IF is_identity(asig.sigma_1) THEN "Signature point in G1 at infinity"
    ELSE IF is_identity(asig.sigma_2) THEN "Signature point in G2 at infinity"
    ELSE IF KeyIdentity THEN "AggregatedVerkey point at infinity"
    ELSE IF ~has_correct_order(asig.sigma_1) THEN "Signature point in G1 has incorrect order"
    ELSE "Signature point in G2 has incorrect order"

\* C3: when the aggregated signature is identity, the aggregated verkey is
\* identity or the aggregated signature has an incorrect order, the call returns
\* Ok(false) whatever the message, depth and GeneratorSet (also one with fewer
\* than depth+2 elements), and only the first failing check, in the order (a),
\* (b), (c), has reported.
C3_DegenerateIsFalseBeforeGenerators ==
    (VerifyCall /\ Degenerate) =>
        /\ out.r.res = Ok(FALSE)
        /\ out.r.log = <<FirstFailingCheck>>

C3_Witness ==
    /\ VerifyCall
    /\ TooFewGens
    /\ SigWrongOrder /\ ~SigIdentity /\ KeyIdentity
    /\ out.r.res = Ok(FALSE)

\* C4 as claimed: every verification attempted with fewer than depth+2
\* generators returns NotEnoughGenerators with n = depth+2.
C4_Original_TooFewGensAlwaysError ==
    (VerifyCall /\ TooFewGens) => out.r.res = NotEnoughGenerators(out.l + 2)

\* C4 as amended: a verification attempted with fewer than depth+2 generators
\* on an aggregated signature and verkey that pass the degenerate-input checks
\* returns NotEnoughGenerators with n = depth+2 (257 for depth 255); a
\* degenerate input gets Ok(false) first.
C4_TooFewGensIsError ==
    (VerifyCall /\ TooFewGens) =>
        /\ ~Degenerate => out.r.res = NotEnoughGenerators(out.l + 2)
        /\ Degenerate => out.r.res = Ok(FALSE)

C4_Witness ==
    /\ VerifyCall
    /\ ~Degenerate
    /\ out.l = MaxDepth
    /\ out.r.res.tag = "NotEnoughGenerators"
    /\ out.r.res.n = MaxDepth + 2

\* C5: the aggregate of no verkeys is the identity, and a verification against
\* an identity aggregated verkey (no keys, or keys that cancel) returns
\* Ok(false) without evaluating the pairing equation.
C5_IdentityKeyIsFalse ==
    /\ (avk # None /\ ver_keys = <<>>) => is_identity(avk.value)
    /\ (VerifyCall /\ KeyIdentity) => (out.r.res = Ok(FALSE) /\ ~out.r.naked)

C5_Witness ==
    /\ VerifyCall
    /\ Len(ver_keys) = 2
    /\ KeyIdentity
    /\ ~SigIdentity /\ ~SigWrongOrder /\ ~TooFewGens
    /\ out.r.res = Ok(FALSE)

Perms(k) == {f \in [1..k -> 1..k] : \A i, j \in 1..k : i # j => f[i] # f[j]}

Permute(s, f) == [i \in 1..Len(s) |-> s[f[i]]]

\* C6: aggregating any permutation of the verkeys gives the same aggregated
\* verkey, and any permutation of the signatures the same sigma_1 and sigma_2.
C6_OrderIndependent ==
    /\ avk # None =>
         \A f \in Perms(Len(ver_keys)) :
             AggregatedVerkey_new(Permute(ver_keys, f)).value = avk.value
    /\ asig # None =>
         \A f \in Perms(Len(sigs)) :
             /\ AggregatedSignature_new(Permute(sigs, f)).sigma_1 = asig.sigma_1
             /\ AggregatedSignature_new(Permute(sigs, f)).sigma_2 = asig.sigma_2

C6_Witness ==
    /\ avk # None /\ asig # None
    /\ Len(ver_keys) = 2 /\ ver_keys[1] # ver_keys[2]
    /\ Len(sigs) = 2 /\ sigs[1].sigma_1 # sigs[2].sigma_1 /\ sigs[1].sigma_2 # sigs[2].sigma_2

\* an aggregate used as one input of a further aggregation
AsVerkey(a) == [value |-> a.value]

AsSignature(a) == Signature(a.sigma_1, a.sigma_2)

C8_VerifyDelegates ==
    /\ out.op = "verify" =>
         out.r = AggregatedSignature_verify_using_aggr_vk(
                     asig, out.msg, out.t, out.l, AggregatedVerkey_new(ver_keys), out.gens)
    /\ out.op = "verify_using_aggr_vk" =>
         out.r = AggregatedSignature_verify(asig, out.msg, out.t, out.l, ver_keys, out.gens)

C8_Witness ==
    /\ out.op = "verify_using_aggr_vk"
    /\ Len(ver_keys) = 1
    /\ out.r.res = Ok(TRUE)

AllGuardsHold ==
    /\ ~is_identity(asig.sigma_1)
    /\ ~is_identity(asig.sigma_2)
    /\ ~is_identity(UsedAvk.value)
    /\ has_correct_order(asig.sigma_1)
    /\ has_correct_order(asig.sigma_2)
    /\ Len(out.gens[2]) >= out.l + 2

\* C10: the pairing equation is evaluated exactly when every guard holds, and
\* then the call returns verify_naked's result unchanged.
C10_NakedOnlyBehindGuards ==
    VerifyCall =>
        /\ out.r.naked <=> AllGuardsHold
        /\ out.r.naked =>
             out.r.res = Signature_verify_naked(asig.sigma_1, asig.sigma_2, UsedAvk.value,
                                                out.msg, out.t, out.l, out.gens)

C10_Witness ==
    /\ VerifyCall
    /\ out.r.naked
    /\ Len(sigs) = 2
    /\ out.r.res = Ok(FALSE)

-----------------------------------------------------------------------------
(* Specification SpecSign: NSigners signers under one GeneratorSet, each   *)
(* holding the Sigkey of one of the periods the test signs at; they sign,  *)
(* once each, and the first k of them (any k >= 1) have their signatures   *)
(* and verkeys aggregated and verified, as tests::test_aggr_sig_verify     *)
(* does.                                                                   *)

Signers == 1..NSigners

\* a signer's secret: a field element or its negation
KeyScalars == {2, GroupOrder - 2}

\* the randomness of one signature: a non-zero field element or its negation
Randomizers == {1, GroupOrder - 1}

\* the periods tests::test_aggr_sig_verify signs at
SignPeriods == {FirstPeriod, FirstPeriod + 2, FirstPeriod + 4}

\* the elements of s at the indices in S, in increasing order
RECURSIVE Pick(_, _, _)
Pick(s, S, i) ==
    IF i > Len(s) THEN <<>>
    ELSE (IF i \in S THEN <<s[i]>> ELSE <<>>) \o Pick(s, S, i + 1)

InitSign ==
    /\ \E keys \in [Signers -> KeyScalars], held \in [Signers -> SignPeriods] :
         /\ ver_keys = [i \in Signers |-> Verkey(keys[i])]
         /\ sks = [i \in Signers |-> SigkeySet(held[i], keys[i])]
    /\ sigs = [i \in Signers |-> None]
    /\ signed = [i \in Signers |-> None]
    /\ avk = None
    /\ asig = None
    /\ out = NoCall

\* sk = set.get_key(t).unwrap(); sig = Signature::new(msg, t, l, gens, sk, rng)
Sign(i) ==
    \E msg \in Msgs, t \in SignPeriods, r \in Randomizers :
        LET k == SigkeySet_get_key(sks[i], t)
        IN  /\ sigs[i] = None
            /\ k.ok
            /\ sigs' = [sigs EXCEPT ![i] = Signature_new(msg, t, Depth, Gens, k.key, r)]
            /\ signed' = [signed EXCEPT ![i] = [msg |-> msg, t |-> t]]
            /\ out' = [op |-> "sign"]
            /\ UNCHANGED <<ver_keys, sks, avk, asig>>

\* asig = AggregatedSignature::new(sigs); asig.verify(msg, t, l, vks, gens),
\* for the message and period some signer has signed
AggregateAndVerify(S) ==
    /\ S # {}
    /\ \A i \in S : sigs[i] # None
    /\ \E j \in Signers :
         /\ signed[j] # None
         /\ LET a == AggregatedSignature_new(Pick(sigs, S, 1))
                msg == signed[j].msg
                t == signed[j].t
            IN  out' = [op |-> "aggregate_verify", signers |-> S, msg |-> msg, t |-> t,
                        asig |-> a,
                        r |-> AggregatedSignature_verify(a, msg, t, Depth,
                                                         Pick(ver_keys, S, 1), Gens)]
    /\ UNCHANGED <<ver_keys, sigs, signed, sks, avk, asig>>

NextSign ==
    \/ \E i \in Signers : Sign(i)
    \/ \E k \in Signers : AggregateAndVerify(1..k)

SpecSign == InitSign /\ [][NextSign]_vars

Verified == out.op = "aggregate_verify"

\* every aggregated signature was made for the message and period verified
AllSignedForTarget ==
    \A i \in out.signers : signed[i] = [msg |-> out.msg, t |-> out.t]

\* exactly one aggregated signature was made for another message or period
OneSignedForOther ==
    Cardinality({i \in out.signers : signed[i] # [msg |-> out.msg, t |-> out.t]}) = 1

\* the signers' keys or randomness cancel in the aggregate
AggregateCancels ==
    \/ is_identity(out.asig.sigma_1)
    \/ is_identity(out.asig.sigma_2)
    \/ is_identity(AggregatedVerkey_new(Pick(ver_keys, out.signers, 1)).value)

\* C1 as claimed: signatures of N signers on one message at one period,
\* aggregated, verify against the N verkeys with Ok(true).
C1_Original_AggregateVerifies ==
    (Verified /\ AllSignedForTarget) => out.r.res = Ok(TRUE)

\* C1 as amended: they verify with Ok(true) unless the aggregated verkey or a
\* component of the aggregated signature is the identity (the signers' secrets
\* or randomness sum to zero), and then with Ok(false).
C1_AggregateVerifies ==
    (Verified /\ AllSignedForTarget) =>
        out.r.res = IF AggregateCancels THEN Ok(FALSE) ELSE Ok(TRUE)

C1_Witness ==
    /\ Verified
    /\ AllSignedForTarget
    /\ out.signers = Signers
    /\ out.t = FirstPeriod + 4
    /\ out.r.res = Ok(TRUE)

\* C2: with one of the aggregated signatures made for another message or
\* another period, the verification returns Ok(false).
C2_MixedAggregateFails ==
    (Verified /\ OneSignedForOther) => out.r.res = Ok(FALSE)

C2_Witness ==
    /\ Verified
    /\ OneSignedForOther
    /\ out.signers = Signers
    /\ out.r.naked
    /\ out.r.res = Ok(FALSE)

-----------------------------------------------------------------------------
(* Specification SpecKeys: each signer's SigkeySet, from the first period, *)
(* under fast_forward_update and get_key.                                  *)

Periods == 1..MaxPeriod

InitKeys ==
    /\ \E keys \in [Signers -> KeyScalars] :
         /\ ver_keys = [i \in Signers |-> Verkey(keys[i])]
         /\ sks = [i \in Signers |-> SigkeySet(FirstPeriod, keys[i])]
    /\ sigs = [i \in Signers |-> None]
    /\ signed = [i \in Signers |-> None]
    /\ avk = None
    /\ asig = None
    /\ out = NoCall

FastForwardUpdate(i) ==
    \E t_new \in Periods :
        LET u == SigkeySet_fast_forward_update(sks[i], t_new)
        IN  /\ sks' = [sks EXCEPT ![i] = u.set]
            /\ out' = [op |-> "fast_forward_update", signer |-> i, t |-> t_new,
                       from |-> sks[i].t, ok |-> u.ok]
            /\ UNCHANGED <<ver_keys, sigs, signed, avk, asig>>

GetKey(i) ==
    \E t \in Periods :
        /\ out' = [op |-> "get_key", signer |-> i, t |-> t,
                   ok |-> SigkeySet_get_key(sks[i], t).ok]
        /\ UNCHANGED <<ver_keys, sigs, signed, sks, avk, asig>>

NextKeys ==
    \/ \E i \in Signers : FastForwardUpdate(i)
    \/ \E i \in Signers : GetKey(i)

SpecKeys == InitKeys /\ [][NextKeys]_vars

UpdateOutcome ==
    out.op = "fast_forward_update" =>
        /\ out.ok <=> out.t > out.from
        /\ sks[out.signer].t = IF out.ok THEN out.t ELSE out.from

GetKeyOutcome ==
    out.op = "get_key" => (out.ok <=> out.t = sks[out.signer].t)

NeverBack == \A i \in Signers : sks'[i].t >= sks[i].t /\ sks'[i].x = sks[i].x

\* C9: fast_forward_update fails for a target at or before the held period and
\* succeeds for a later one, which the set then holds; get_key succeeds for the
\* held period alone; and the held period never decreases.
C9_ForwardOnly == [](UpdateOutcome /\ GetKeyOutcome) /\ [][NeverBack]_vars

C9_Witness ==
    /\ out.op = "fast_forward_update"
    /\ ~out.ok
    /\ out.from = FirstPeriod + 4
    /\ out.t = FirstPeriod + 2
    /\ sks[out.signer].t = FirstPeriod + 4

====
